---- MODULE Spec2Model ----
(***************************************************************************)
(* Model of Src/OSD/SDL/Main.cpp of Supermodel: the session driver         *)
(* Supermodel() (initialisation, main loop, teardown), the UI command      *)
(* dispatch, the save state / NVRAM containers and the frame pacing.       *)
(* The build modelled is the default one (SUPERMODEL_DEBUGGER undefined).  *)
(***************************************************************************)
EXTENDS Integers, Sequences, FiniteSets, TLC

\* ------------------------------------------------------------- bounds
\* Loop iterations explored by the general specification Spec.
MaxIter == 2
\* Loop iterations explored by the slot specification SpecSlots.
MaxSlotIter == 12
\* Largest number of UI commands asserted by one Poll.
MaxPressed == 2
\* Number of abstract emulated-machine states (RunFrame cycles through them).
MaxMachine == 3
\* The iterations of a session in which frame times vary.
MaxPaceIter == 5
\* The iterations a long paused session has made, and those that follow.
LongRun == 268458
MaxLongIter == 3
\* The calls of the logging functions.
MaxLogCalls == 4
\* Loop iterations explored by the FPS specification SpecFPS.
MaxFPSIter == 4
\* Loop iterations explored by the path specification SpecPaths.
MaxPathIter == 11
\* The small display sizes tried, in pixels: 1..MaxSmallRes.
MaxSmallRes == 8

\* -------------------------------------------------- program constants
STATE_FILE_VERSION == 1
NVRAM_FILE_VERSION == 0
\* saveSlot %= 10
NumSlots == 10
\* sizeof(fileVersion)
IntSize == 4
\* char filePath[24]
FilePathSize == 24
\* 1000.0f/60.0f : milliseconds per second, frames per second
MsPerSec == 1000
FrameRate == 60
\* Line 168: the Model 3 aspect ratio is 496/384.
Model3Width == 496
Model3Height == 384

SaveStateBlock == "Supermodel Save State"
NVRAMBlock == "Supermodel NVRAM State"

\* ------------------------------------------------------------ strings
\* C strings are sequences of byte values (without the terminating nul).
SavesDir == <<83, 97, 118, 101, 115, 47>>      \* "Saves/"
StExt == <<46, 115, 116>>                      \* ".st"
NVRAMDir == <<78, 86, 82, 65, 77, 47>>         \* "NVRAM/"
NvExt == <<46, 110, 118>>                      \* ".nv"

\* ROM set identifiers (GameInfo::id) the ROM loader may report:
\* "lm", "vf3", "scud", "daytona2" (no id has more than 8 letters) and "a".
GameList ==
  << <<108, 109>>, <<118, 102, 51>>, <<115, 99, 117, 100>>,
     <<100, 97, 121, 116, 111, 110, 97, 50>>, <<97>> >>

GameIds == { GameList[i] : i \in DOMAIN GameList }

\* %08d of an unsigned value: eight digits.
DecPadded(n) == [i \in 1 .. 8 |-> 48 + ((n \div 10^(8 - i)) % 10)]

\* printf %d of an unsigned value.
RECURSIVE Dec(_)
Dec(n) == IF n < 10 THEN << 48 + n >> ELSE Dec(n \div 10) \o << 48 + (n % 10) >>

\* The path formatted without the slot number.
StatePathNoSlot(id, slot) == SavesDir \o id \o StExt \o Dec(0)

\* sprintf(filePath, "Saves/%s.st%d", id, saveSlot)
StatePath(id, slot) == SavesDir \o id \o StExt \o Dec(slot)

\* sprintf(filePath, "NVRAM/%s.nv", id)
NVRAMPath(id) == NVRAMDir \o id \o NvExt

\* Write(&fileVersion, sizeof(fileVersion)): the bytes of the two's
\* complement int, little endian.
IntBytes(v) ==
  << v % 256, (v \div 256) % 256, (v \div 65536) % 256, (v \div 16777216) % 256 >>

\* Read(&fileVersion, sizeof(fileVersion)): the first four bytes as an int.
ReadInt(data) ==
  data[1] + 256 * data[2] + 65536 * data[3]
    + 16777216 * (IF data[4] >= 128 THEN data[4] - 256 ELSE data[4])

\* The id written with strlen bytes, without its nul.
HeaderDataNoNul(version, id) == IntBytes(version) \o id

\* The header data written by lines 375-376: version, then id and its nul.
HeaderData(version, id) == IntBytes(version) \o id \o << 0 >>

\* The nul-terminated string starting at position i of data.
RECURSIVE CString(_, _)
CString(data, i) ==
  IF i > Len(data) \/ data[i] = 0 THEN << >> ELSE << data[i] >> \o CString(data, i + 1)

\* ------------------------------------------------- container files
\* A container file: its top-level block name, the header data written
\* into that block, and the sub-blocks the machine appended (its snapshot).
NoFile == [exists |-> FALSE, name |-> "", data |-> << >>, body |-> << >>]

Container(name, version, id, body) ==
  [exists |-> TRUE, name |-> name, data |-> HeaderData(version, id), body |-> body]

\* CBlockFile::Load: the file can be opened.
BlockFileLoad(f) == f.exists

\* CBlockFile::FindBlock: a top-level block of that exact name is found.
BlockFileFindBlock(f, name) == f.name = name

\* -------------------------------------------------------- the machine
\* CModel3 is abstracted to an emulation state st and a backup RAM image nv.
NewMachine == [st |-> 0, nv |-> 0]

\* CModel3::RunFrame advances the emulation by one frame; the game may
\* write its backup RAM while it runs.
M3RunFrame(m) == { [st |-> (m.st + 1) % MaxMachine, nv |-> n] : n \in {m.nv, 1} }

M3Reset(m) == [m EXCEPT !.st = 0]

M3ClearNVRAM(m) == [m EXCEPT !.nv = 0]

M3SaveState(m) == << m.st, m.nv >>

M3LoadState(m, body) == [st |-> body[1], nv |-> body[2]]

M3SaveNVRAM(m) == << m.nv >>

M3LoadNVRAM(m, body) == [m EXCEPT !.nv = body[1]]

\* ---------------------------------------------- files before the session
\* What may lie at a path before the session starts: nothing ("missing"),
\* a container of the other kind ("foreign"), of another format version
\* ("oldver"), of another game ("otherid"), or one this build wrote ("valid").
OtherId(id) == CHOOSE o \in GameIds : o # id

PreFile(kind, name, other, version, id, body, otherBody) ==
  CASE kind = "missing" -> NoFile
    [] kind = "foreign" -> Container(other, version, id, otherBody)
    [] kind = "oldver" -> Container(name, version + 256, id, body)
    [] kind = "otherid" -> Container(name, version, OtherId(id), body)
    [] OTHER -> Container(name, version, id, body)

GameIndex(id) == CHOOSE i \in DOMAIN GameList : GameList[i] = id

\* The save directory holds one kind of file per slot, in this order for
\* the first game and rotated by one for each next game.
SlotKinds == << "oldver", "foreign", "otherid", "missing", "valid" >>

PreStateFile(id, slot) ==
  PreFile(SlotKinds[((slot + GameIndex(id) - 1) % Len(SlotKinds)) + 1],
          SaveStateBlock, NVRAMBlock, STATE_FILE_VERSION, id,
          << MaxMachine - 1, 1 >>, << 1 >>)

\* The NVRAM directory holds one kind of file per game, in this order.
NVRAMKinds == << "missing", "valid", "oldver", "foreign", "otherid" >>

PreNVRAMFile(id) ==
  PreFile(NVRAMKinds[GameIndex(id)],
          NVRAMBlock, SaveStateBlock, NVRAM_FILE_VERSION, id,
          << 1 >>, << MaxMachine - 1, 1 >>)

Slots == 0 .. (NumSlots - 1)

\* The paths a session of ROM set id can address.
Paths(id) == {StatePath(id, s) : s \in Slots} \cup {NVRAMPath(id)}

PreDisk(id) ==
  [p \in Paths(id) |->
     IF p = NVRAMPath(id)
     THEN PreNVRAMFile(id)
     ELSE PreStateFile(id, CHOOSE s \in Slots : p = StatePath(id, s))]

\* -------------------------------------------------- single precision
\* The build evaluates float expressions in IEEE single precision, rounding
\* each operation to nearest, ties to even. A float is [m, s]: the value
\* m / 2^s, m below 2^31.
MantissaBits == 24

RECURSIVE BitLen(_)
BitLen(n) == IF n = 0 THEN 0 ELSE 1 + BitLen(n \div 2)

\* n / 2^t rounded to the nearest integer, ties to even, where sticky says
\* that n stands for a value slightly above n.
RoundShift(n, t, sticky) ==
  IF t = 0 THEN n
  ELSE LET p == 2^t
           q == n \div p
           r == n % p
           half == p \div 2
       IN IF r > half \/ (r = half /\ (sticky \/ q % 2 = 1)) THEN q + 1 ELSE q

\* (float) n for an unsigned n.
F32OfInt(n) ==
  IF n < 2^MantissaBits
  THEN [m |-> n, s |-> 0]
  ELSE LET t == BitLen(n) - MantissaBits
       IN [m |-> RoundShift(n, t, FALSE) * 2^t, s |-> 0]

\* Long division: the quotient q and remainder rem of a value
\* (q + rem/d) / 2^sh are extended bit by bit to 25 quotient bits, which
\* are rounded to 24.
DivBits(q, rem, d, sh) ==
  LET Extend[r \in [q : Nat, rem : Nat, sh : Int]] ==
        IF r.q >= 2^MantissaBits
        THEN [m |-> RoundShift(r.q, 1, r.rem > 0), s |-> r.sh - 1]
        ELSE Extend[[q |-> 2 * r.q + (2 * r.rem) \div d, rem |-> (2 * r.rem) % d,
                     sh |-> r.sh + 1]]
  IN Extend[[q |-> q, rem |-> rem, sh |-> sh]]

\* The float nearest to (n * 2^k) / d, for n >= 0 and d > 0.
F32Quot(n, d, k) ==
  IF n = 0 THEN [m |-> 0, s |-> 0]
  ELSE IF n \div d >= 2^MantissaBits
  THEN LET t == BitLen(n \div d) - MantissaBits
       IN [m |-> RoundShift(n \div d, t, n % d > 0) * 2^(t + k), s |-> 0]
  ELSE DivBits(n \div d, n % d, d, -k)

\* The float nearest to n * f, for an unsigned n below 2^12 and a float f
\* with a full mantissa: the product n * f.m is A * 4096 + B, formed in two
\* halves, and its low t bits are rounded away.
F32Scale(n, f) ==
  LET lo == n * (f.m % 4096)
      A == n * (f.m \div 4096) + lo \div 4096
      B == lo % 4096
      t == BitLen(A) + 12 - MantissaBits
  IN IF n = 0 THEN [m |-> 0, s |-> 0]
     ELSE [m |-> (A \div 4096) * 2^(24 - t)
                   + RoundShift((A % 4096) * 4096 + B, t, FALSE),
           s |-> f.s - t]

\* (unsigned) f: the fraction is discarded.
F32ToUnsigned(f) == f.m \div 2^f.s

\* a < b for floats of at most 24 fraction bits.
F32Less(a, b) ==
  LET S == IF a.s > b.s THEN a.s ELSE b.s
      ia == a.m \div 2^a.s
      ib == b.m \div 2^b.s
  IN \/ ia < ib
     \/ ia = ib /\ (a.m % 2^a.s) * 2^(S - a.s) < (b.m % 2^b.s) * 2^(S - b.s)

\* ------------------------------------------------------------- state
VARIABLES
  pc,               \* position in Supermodel()
  status,           \* value returned by Supermodel(), -1 before it returns
  held,             \* resources acquired and not released
  released,         \* number of releases of each resource
  openFiles,        \* paths of the containers opened and not closed
  gameId,           \* Model3->GetGameInfo()->id of the ROM set in zipFile
  g_Config,         \* throttle, fullScreen, showFPS
  Model3,           \* state of the emulated machine
  disk,             \* the container files, by path
  quit, paused, showCursor,
  mouseVisible,     \* last SetMouseVisibility argument
  saveSlot,
  pollFailed,       \* Inputs->Poll returned false in this iteration
  pressed,          \* UI inputs whose Pressed() is true in this iteration
  log,              \* calls made in this iteration (or phase), in order
  filePath,         \* the path last formatted into a filePath buffer
  stdoutSlots,      \* the slots printed by "Save slot: %d", in order
  iter,             \* loop iterations begun
  itersNotPaused,   \* loop iterations begun while not paused
  nRunFrame,        \* Model3->RunFrame calls
  nSaveNVRAM,       \* SaveNVRAM calls
  ticks,            \* SDL_GetTicks clock (milliseconds, far from wrapping)
  prevFPSTicks, fpsFramesElapsed, framesElapsed, startTicks,
  lastDelay,        \* argument of the SDL_Delay of this iteration, -1 if none
  titleFPSStr,      \* the rate last formatted with %1.1f, in tenths; -1 if none
  xOffset, yOffset, \* offset of the renderer output within the viewport
  xRes, yRes,       \* renderer output resolution
  VideoInfo,        \* the resolution SDL_GetVideoInfo reports
  s_Logger,         \* the logger installed, "NULL" if none
  loggerCalls,      \* the calls made to methods of logger objects, in order
  logReturns        \* the calls of DebugLog, InfoLog, ErrorLog and their results

vars ==
  << pc, status, held, released, openFiles, gameId, g_Config, Model3, disk, quit, paused,
     showCursor, mouseVisible, saveSlot, pollFailed, pressed, log, filePath,
     stdoutSlots, iter,
     itersNotPaused, nRunFrame, nSaveNVRAM, ticks, prevFPSTicks,
     fpsFramesElapsed, framesElapsed, startTicks, lastDelay, titleFPSStr,
     xOffset, yOffset, xRes, yRes, VideoInfo, s_Logger, loggerCalls, logReturns >>

scrVars == << xOffset, yOffset, xRes, yRes, VideoInfo >>
logVars == << s_Logger, loggerCalls, logReturns >>
resVars == << held, released, openFiles >>
envVars == << gameId, g_Config, disk >>
uiVars == << quit, paused, showCursor, mouseVisible, saveSlot >>
inVars == << pollFailed, pressed >>
outVars == << log, filePath, stdoutSlots >>
cntVars == << iter, itersNotPaused, nRunFrame, nSaveNVRAM >>
clockVars ==
  << ticks, prevFPSTicks, fpsFramesElapsed, framesElapsed, startTicks,
     lastDelay, titleFPSStr >>

Resources == {"Model3", "Render2D", "Render3D", "Audio"}

\* The settings ReadConfigFile and ApplySettings can leave in g_Config.
Configs ==
  [throttle : BOOLEAN, fullScreen : BOOLEAN, showFPS : BOOLEAN,
   xRes : {Model3Width}, yRes : {Model3Height}]

\* Lines 493-502: the three objects are allocated, the flags cleared.
\* The ROM set, the configuration and the files are the session's inputs.
InitSupermodel ==
  /\ pc = "Model3Init"
  /\ status = -1
  /\ held = {"Model3", "Render2D", "Render3D"}
  /\ released = [r \in Resources |-> 0]
  /\ openFiles = {}
  /\ gameId \in GameIds
  /\ g_Config = [throttle |-> TRUE, fullScreen |-> FALSE, showFPS |-> FALSE,
                 xRes |-> Model3Width, yRes |-> Model3Height]
  /\ Model3 = NewMachine
  /\ disk = PreDisk(gameId)
  /\ quit = FALSE
  /\ paused = FALSE
  /\ showCursor = FALSE
  /\ mouseVisible = TRUE
  /\ saveSlot = 0
  /\ pollFailed = FALSE
  /\ pressed = {}
  /\ log = << >>
  /\ filePath = << >>
  /\ stdoutSlots = << >>
  /\ iter = 0
  /\ itersNotPaused = 0
  /\ nRunFrame = 0
  /\ nSaveNVRAM = 0
  /\ ticks = 0
  /\ prevFPSTicks = 0
  /\ fpsFramesElapsed = 0
  /\ framesElapsed = 0
  /\ startTicks = 0
  /\ lastDelay = -1
  /\ titleFPSStr = -1
  /\ xOffset = 0
  /\ yOffset = 0
  /\ xRes = 0
  /\ yRes = 0
  /\ VideoInfo = [current_w |-> 0, current_h |-> 0]
  /\ loggerCalls = << >>
  /\ logReturns = << >>

\* Line 1000: main() has installed its logger before it calls Supermodel().
Init == InitSupermodel /\ s_Logger = "Logger"

\* Line 69: no logger is installed when the program starts.
InitNoLogger == InitSupermodel /\ s_Logger = "NULL"

\* A failed initialisation call skipped: the next call is made.
Return1Skipped ==
  /\ status' = status
  /\ pc' = CASE pc = "Model3Init" -> "LoadROMSet"
              [] pc = "LoadROMSet" -> "LoadNVRAM"
              [] pc = "CreateGLScreen" -> "OpenAudio"
              [] pc = "OpenAudio" -> "Render2DInit"

\* return 1 without passing through QuitError (lines 511, 513, 529, 533).
Return1 ==
  /\ pc' = "returned"
  /\ status' = 1

\* ------------------------------------------------ save states and NVRAM
\* SaveState() going on after Create has failed.
SaveStateAfterFailedCreate(m, id, slot, d, createOk) ==
  LET path == StatePath(id, slot)
  IN [disk |-> IF createOk
               THEN [d EXCEPT ![path] =
                       Container(SaveStateBlock, STATE_FILE_VERSION, id, M3SaveState(m))]
               ELSE d,
      path |-> path,
      ev |-> << (IF createOk THEN "Create" ELSE "Create:FAIL"), "Write", "Write",
                "Model3->SaveState", "Close" >>]

\* SaveState(), lines 361-383: the file after the call and the calls made.
SaveState(m, id, slot, d, createOk) ==
  LET path == StatePath(id, slot)
  IN IF ~createOk
     THEN [disk |-> d, path |-> path, ev |-> << "Create:FAIL", "ErrorLog" >>]
     ELSE [disk |-> [d EXCEPT ![path] =
                       Container(SaveStateBlock, STATE_FILE_VERSION, id, M3SaveState(m))],
           path |-> path,
           ev |-> << "Create", "Write", "Write", "Model3->SaveState", "Close" >>]

\* LoadState() reading the stored id too and refusing another game's file.
LoadStateCheckingId(m, id, slot, d) ==
  LET path == StatePath(id, slot)
      f == d[path]
  IN IF ~BlockFileLoad(f)
     THEN [m |-> m, path |-> path, ev |-> << "Load:FAIL", "ErrorLog" >>]
     ELSE IF ~BlockFileFindBlock(f, SaveStateBlock)
     THEN [m |-> m, path |-> path, ev |-> << "Load", "FindBlock:FAIL", "ErrorLog" >>]
     ELSE IF ReadInt(f.data) # STATE_FILE_VERSION
     THEN [m |-> m, path |-> path, ev |-> << "Load", "FindBlock", "Read", "ErrorLog" >>]
     ELSE IF CString(f.data, IntSize + 1) # id
     THEN [m |-> m, path |-> path,
           ev |-> << "Load", "FindBlock", "Read", "Read", "ErrorLog" >>]
     ELSE [m |-> M3LoadState(m, f.body), path |-> path,
           ev |-> << "Load", "FindBlock", "Read", "Read", "Model3->LoadState", "Close" >>]

\* LoadState() without the test of the file version.
LoadStateAnyVersion(m, id, slot, d) ==
  LET path == StatePath(id, slot)
      f == d[path]
  IN IF ~BlockFileLoad(f)
     THEN [m |-> m, path |-> path, ev |-> << "Load:FAIL", "ErrorLog" >>]
     ELSE IF ~BlockFileFindBlock(f, SaveStateBlock)
     THEN [m |-> m, path |-> path, ev |-> << "Load", "FindBlock:FAIL", "ErrorLog" >>]
     ELSE [m |-> M3LoadState(m, f.body), path |-> path,
           ev |-> << "Load", "FindBlock", "Read", "Model3->LoadState", "Close" >>]

\* LoadState(), lines 385-419: the machine after the call and the calls made.
LoadState(m, id, slot, d) ==
  LET path == StatePath(id, slot)
      f == d[path]
  IN IF ~BlockFileLoad(f)
     THEN [m |-> m, path |-> path, ev |-> << "Load:FAIL", "ErrorLog" >>]
     ELSE IF ~BlockFileFindBlock(f, SaveStateBlock)
     THEN [m |-> m, path |-> path, ev |-> << "Load", "FindBlock:FAIL", "ErrorLog" >>]
     ELSE IF ReadInt(f.data) # STATE_FILE_VERSION
     THEN [m |-> m, path |-> path, ev |-> << "Load", "FindBlock", "Read", "ErrorLog" >>]
     ELSE [m |-> M3LoadState(m, f.body), path |-> path,
           ev |-> << "Load", "FindBlock", "Read", "Model3->LoadState", "Close" >>]

\* SaveNVRAM(), lines 421-442.
SaveNVRAM(m, id, d, createOk) ==
  LET path == NVRAMPath(id)
  IN IF ~createOk
     THEN [disk |-> d, path |-> path, ev |-> << "Create:FAIL", "ErrorLog" >>]
     ELSE [disk |-> [d EXCEPT ![path] =
                       Container(NVRAMBlock, NVRAM_FILE_VERSION, id, M3SaveNVRAM(m))],
           path |-> path,
           ev |-> << "Create", "Write", "Write", "Model3->SaveNVRAM", "Close" >>]

\* LoadNVRAM() reporting a file that cannot be opened, as LoadState() does.
LoadNVRAMReportingMissing(m, id, d) ==
  LET path == NVRAMPath(id)
      f == d[path]
  IN IF ~BlockFileLoad(f)
     THEN [m |-> m, path |-> path, ev |-> << "Load:FAIL", "ErrorLog" >>]
     ELSE IF ~BlockFileFindBlock(f, NVRAMBlock)
     THEN [m |-> m, path |-> path, ev |-> << "Load", "FindBlock:FAIL", "ErrorLog" >>]
     ELSE IF ReadInt(f.data) # NVRAM_FILE_VERSION
     THEN [m |-> m, path |-> path, ev |-> << "Load", "FindBlock", "Read", "ErrorLog" >>]
     ELSE [m |-> M3LoadNVRAM(m, f.body), path |-> path,
           ev |-> << "Load", "FindBlock", "Read", "Model3->LoadNVRAM", "Close" >>]

\* LoadNVRAM(), lines 444-477: a file that cannot be opened is not logged.
LoadNVRAM(m, id, d) ==
  LET path == NVRAMPath(id)
      f == d[path]
  IN IF ~BlockFileLoad(f)
     THEN [m |-> m, path |-> path, ev |-> << "Load:FAIL" >>]
     ELSE IF ~BlockFileFindBlock(f, NVRAMBlock)
     THEN [m |-> m, path |-> path, ev |-> << "Load", "FindBlock:FAIL", "ErrorLog" >>]
     ELSE IF ReadInt(f.data) # NVRAM_FILE_VERSION
     THEN [m |-> m, path |-> path, ev |-> << "Load", "FindBlock", "Read", "ErrorLog" >>]
     ELSE [m |-> M3LoadNVRAM(m, f.body), path |-> path,
           ev |-> << "Load", "FindBlock", "Read", "Model3->LoadNVRAM", "Close" >>]

\* The container is open once Create or Load has succeeded and until Close
\* is called: whether the calls ev of one operation leave it open.
LeftOpen(ev) ==
  /\ \E i \in DOMAIN ev : ev[i] \in {"Create", "Load"}
  /\ \A i \in DOMAIN ev : ev[i] # "Close"

\* The containers open after an operation on path that made the calls ev.
OpenAfter(open, path, ev) == IF LeftOpen(ev) THEN open \cup {path} ELSE open

\* ------------------------------------------------------------ logging
\* The logger objects there are.
Loggers == {"Logger", "Debugger"}

\* The method of the logger called without testing s_Logger.
LoggerCallUnguarded(logger, calls, fn) ==
  Append(calls, [logger |-> logger, method |-> fn])

\* Lines 84-88, 94-98, 104-108: without a logger the function returns at
\* once; else the logger's method of the same name is called.
LoggerCall(logger, calls, fn) ==
  IF logger = "NULL" THEN calls
  ELSE Append(calls, [logger |-> logger, method |-> fn])

\* The value a logging function returns: ErrorLog returns FAIL on both of
\* its paths (lines 105, 110), the others return nothing.
LogReturn(fn) == IF fn = "ErrorLog" THEN "FAIL" ELSE "void"

\* Lines 82-111: one call of DebugLog, InfoLog or ErrorLog.
LogStep(fn) ==
  /\ Len(logReturns) < MaxLogCalls
  /\ loggerCalls' = LoggerCall(s_Logger, loggerCalls, fn)
  /\ logReturns' = Append(logReturns, [fn |-> fn, ret |-> LogReturn(fn)])
  /\ UNCHANGED << s_Logger, pc, status, resVars, envVars, Model3, uiVars, inVars,
                  outVars, cntVars, clockVars, scrVars >>

DebugLogStep == LogStep("DebugLog")

InfoLogStep == LogStep("InfoLog")

ErrorLogStep == LogStep("ErrorLog")

\* Lines 77-80: SetLogger(Logger).
SetLoggerStep ==
  /\ \E Logger \in Loggers \cup {"NULL"} : s_Logger' = Logger
  /\ UNCHANGED << loggerCalls, logReturns, pc, status, resVars, envVars, Model3,
                  uiVars, inVars, outVars, cntVars, clockVars, scrVars >>

\* ------------------------------------------------------------ display
\* The aspect ratio with the height taken as the width.
Model3RatioInverted == F32Quot(Model3Height, Model3Width, 0)

\* Line 168: model3Ratio = 496.0f/384.0f.
Model3Ratio == F32Quot(Model3Width, Model3Height, 0)

\* The whole excess of the display over the request.
WholeExcess(actual, requested) ==
  IF requested < actual THEN actual - requested ELSE 0

\* Lines 181-184: half of what the display has more than was requested.
HalfExcess(actual, requested) ==
  IF requested < actual THEN (actual - requested) \div 2 ELSE 0

\* CreateGLScreen(), lines 163-184 and 212-214: the visible area for the
\* request xResIn x yResIn (below 2^12) on a display of
\* current_w x current_h. xRes/model3Ratio is (xRes * 2^s) / m for
\* model3Ratio = m / 2^s; where line 173 divides xRes, line 171 was not
\* executed and xRes is the integer requested. The resolved size never
\* exceeds the request, so the unsigned differences of lines 177-178 do not
\* wrap.
CreateGLScreen(xResIn, yResIn, current_w, current_h, keepAspectRatio) ==
  LET xF == F32OfInt(xResIn)
      yF == F32OfInt(yResIn)
      xFit == IF keepAspectRatio
                 /\ F32Less(yF, F32Quot(xResIn, Model3Ratio.m, Model3Ratio.s))
              THEN F32Scale(yResIn, Model3Ratio)
              ELSE xF
      yFit == IF keepAspectRatio /\ F32Less(xFit, F32Scale(yResIn, Model3Ratio))
              THEN F32Quot(F32ToUnsigned(xFit), Model3Ratio.m, Model3Ratio.s)
              ELSE yF
  IN [xOffset |-> (xResIn - F32ToUnsigned(xFit)) \div 2 + HalfExcess(current_w, xResIn),
      yOffset |-> (yResIn - F32ToUnsigned(yFit)) \div 2 + HalfExcess(current_h, yResIn),
      xRes |-> F32ToUnsigned(xFit),
      yRes |-> F32ToUnsigned(yFit)]

\* ------------------------------------------------------ initialisation
\* The log entry of an initialisation call and its result.
Called(call, ok) ==
  IF ok THEN call
  ELSE CASE call = "Model3->Init" -> "Model3->Init:FAIL"
         [] call = "LoadROMSet" -> "LoadROMSet:FAIL"
         [] call = "CreateGLScreen" -> "CreateGLScreen:FAIL"
         [] call = "OpenAudio" -> "OpenAudio:FAIL"
         [] call = "Render2D->Init" -> "Render2D->Init:FAIL"
         [] call = "Render3D->Init" -> "Render3D->Init:FAIL"

\* Lines 543, 545: goto QuitError.
RendererFailure == "QuitError"

\* Line 510: Model3->Init().
Model3InitStep ==
  /\ pc = "Model3Init"
  /\ \E ok \in BOOLEAN :
       /\ IF ok THEN pc' = "LoadROMSet" /\ status' = status ELSE Return1
       /\ log' = Append(log, Called("Model3->Init", ok))
  /\ UNCHANGED << logVars, scrVars, resVars, envVars, Model3, uiVars, inVars, filePath, stdoutSlots,
                  cntVars, clockVars >>

\* Lines 512-518: Model3->LoadROMSet(), then the game's and the command
\* line's settings are applied.
LoadROMSetStep(configs) ==
  /\ pc = "LoadROMSet"
  /\ \E ok \in BOOLEAN :
       /\ IF ok
          THEN /\ pc' = "LoadNVRAM"
               /\ status' = status
               /\ g_Config' \in configs
          ELSE Return1 /\ g_Config' = g_Config
       /\ log' = Append(log, Called("LoadROMSet", ok))
  /\ UNCHANGED << logVars, scrVars, resVars, gameId, disk, Model3, uiVars, inVars, filePath,
                  stdoutSlots, cntVars, clockVars >>

\* Line 522: LoadNVRAM(Model3).
LoadNVRAMStep ==
  /\ pc = "LoadNVRAM"
  /\ LET r == LoadNVRAM(Model3, gameId, disk)
     IN /\ Model3' = r.m
        /\ log' = log \o << "LoadNVRAM" >> \o r.ev
        /\ filePath' = r.path
        /\ openFiles' = OpenAfter(openFiles, r.path, r.ev)
  /\ pc' = "CreateGLScreen"
  /\ UNCHANGED << logVars, scrVars, status, held, released, envVars, uiVars, inVars, stdoutSlots, cntVars,
                  clockVars >>

\* Lines 525-529: the resolution of the configuration is requested from
\* CreateGLScreen(), which keeps the aspect ratio. It fails before the video
\* mode is set (lines 144-157), or when glewInit fails (lines 190-195), after
\* the offsets were stored and before the resolution is written back.
CreateGLScreenStep(modes) ==
  /\ pc = "CreateGLScreen"
  /\ \E result \in {"OKAY", "FAIL:video", "FAIL:glew"}, mode \in modes :
       LET r == CreateGLScreen(g_Config.xRes, g_Config.yRes,
                               mode.current_w, mode.current_h, TRUE)
       IN /\ IF result = "OKAY" THEN pc' = "OpenAudio" /\ status' = status ELSE Return1
          /\ log' = Append(log, Called("CreateGLScreen", result = "OKAY"))
          /\ xRes' = IF result = "OKAY" THEN r.xRes ELSE g_Config.xRes
          /\ yRes' = IF result = "OKAY" THEN r.yRes ELSE g_Config.yRes
          /\ xOffset' = IF result = "FAIL:video" THEN xOffset ELSE r.xOffset
          /\ yOffset' = IF result = "FAIL:video" THEN yOffset ELSE r.yOffset
          /\ VideoInfo' = IF result = "FAIL:video" THEN VideoInfo ELSE mode
  /\ UNCHANGED << logVars, resVars, envVars, Model3, uiVars, inVars, filePath, stdoutSlots,
                  cntVars, clockVars >>

\* Lines 532-539: OpenAudio(), then the mouse is hidden if full screen and
\* the inputs are attached.
OpenAudioStep ==
  /\ pc = "OpenAudio"
  /\ \E ok \in BOOLEAN :
       /\ IF ok
          THEN /\ pc' = "Render2DInit"
               /\ status' = status
               /\ held' = held \cup {"Audio"}
               /\ mouseVisible' = ~g_Config.fullScreen
          ELSE Return1 /\ UNCHANGED << held, mouseVisible >>
       /\ log' = Append(log, Called("OpenAudio", ok))
  /\ UNCHANGED << logVars, scrVars, released, openFiles, envVars, Model3, quit, paused, showCursor, saveSlot,
                  inVars, filePath, stdoutSlots, cntVars, clockVars >>

\* Lines 542-543: Render2D->Init().
Render2DInitStep ==
  /\ pc = "Render2DInit"
  /\ \E ok \in BOOLEAN :
       /\ pc' = IF ok THEN "Render3DInit" ELSE RendererFailure
       /\ log' = Append(log, Called("Render2D->Init", ok))
  /\ UNCHANGED << logVars, scrVars, status, resVars, envVars, Model3, uiVars, inVars, filePath,
                  stdoutSlots, cntVars, clockVars >>

\* Lines 544-545: Render3D->Init().
Render3DInitStep ==
  /\ pc = "Render3DInit"
  /\ \E ok \in BOOLEAN :
       /\ pc' = IF ok THEN "Emulate" ELSE RendererFailure
       /\ log' = Append(log, Called("Render3D->Init", ok))
  /\ UNCHANGED << logVars, scrVars, status, resVars, envVars, Model3, uiVars, inVars, filePath,
                  stdoutSlots, cntVars, clockVars >>

\* Lines 546-565: the renderers are attached, the machine is reset and the
\* frame clock is started.
EmulateStep ==
  /\ pc = "Emulate"
  /\ Model3' = M3Reset(Model3)
  /\ fpsFramesElapsed' = 0
  /\ framesElapsed' = 0
  /\ prevFPSTicks' = ticks
  /\ startTicks' = ticks
  /\ log' = log \o << "Reset" >>
  /\ pc' = "while"
  /\ UNCHANGED << logVars, scrVars, status, resVars, envVars, uiVars, inVars, filePath, stdoutSlots,
                  cntVars, ticks, lastDelay, titleFPSStr >>

\* Lines 760-766: QuitError deletes the machine and the renderers.
QuitErrorStep ==
  /\ pc = "QuitError"
  /\ held' = held \ {"Model3", "Render2D", "Render3D"}
  /\ released' = [r \in Resources |->
                    IF r \in {"Model3", "Render2D", "Render3D"}
                    THEN released[r] + 1 ELSE released[r]]
  /\ pc' = "returned"
  /\ status' = 1
  /\ UNCHANGED << logVars, scrVars, openFiles, envVars, Model3, uiVars, inVars, outVars, cntVars,
                  clockVars >>

\* ------------------------------------------------------------ main loop
\* The UI inputs tested by lines 597-660.
UIInputs ==
  { "uiExit", "uiReset", "uiPause", "uiSaveState", "uiChangeSlot", "uiLoadState",
    "uiDumpInpState", "uiToggleCursor", "uiClearNVRAM", "uiToggleFrLimit" }

\* The sets of inputs one Poll can assert.
PressedSets(n) == { P \in SUBSET UIInputs : Cardinality(P) <= n }

\* The loop going on although quit is set.
LoopExitNever == "RunFrame"

\* The loop's exit jumping past SaveNVRAM.
LoopExitNoSave == "CloseAudio"

\* Lines 706-718: what follows the loop is SaveNVRAM(Model3).
LoopExit == "SaveNVRAM"

\* Line 566: while (!quit). The fields that describe one iteration are
\* cleared when the next one begins.
WhileStep(maxIter) ==
  /\ pc = "while"
  /\ IF quit
     THEN /\ pc' = LoopExit
          /\ UNCHANGED << iter, itersNotPaused, log, filePath, pollFailed, pressed,
                          lastDelay >>
     ELSE /\ iter < maxIter
          /\ pc' = "RunFrame"
          /\ iter' = iter + 1
          /\ itersNotPaused' = IF paused THEN itersNotPaused ELSE itersNotPaused + 1
          /\ log' = << >>
          /\ filePath' = << >>
          /\ pollFailed' = FALSE
          /\ pressed' = {}
          /\ lastDelay' = -1
  /\ UNCHANGED << logVars, scrVars, status, resVars, envVars, Model3, uiVars, stdoutSlots, nRunFrame,
                  nSaveNVRAM, ticks, prevFPSTicks, fpsFramesElapsed,
                  framesElapsed, startTicks, titleFPSStr >>

\* The frame is run without testing paused.
FrameCallsAlways(isPaused) == << "RunFrame", "SwapBuffers" >>

\* Lines 569-576: the calls made before the inputs are polled.
FrameCalls(isPaused) == IF ~isPaused THEN << "RunFrame", "SwapBuffers" >> ELSE << >>

FrameStep ==
  /\ pc = "RunFrame"
  /\ LET calls == FrameCalls(paused)
     IN /\ log' = log \o calls
        /\ nRunFrame' = nRunFrame + Cardinality({ i \in DOMAIN calls : calls[i] = "RunFrame" })
        /\ IF \E i \in DOMAIN calls : calls[i] = "RunFrame"
           THEN Model3' \in M3RunFrame(Model3)
           ELSE Model3' = Model3
  /\ pc' = "Poll"
  /\ UNCHANGED << logVars, scrVars, status, resVars, envVars, uiVars, inVars, filePath, stdoutSlots,
                  iter, itersNotPaused, nSaveNVRAM, clockVars >>

\* A failed Poll that leaves quit as it is.
PollQuitIgnored(q, ok) == q

\* Line 580: quit = 1 if Poll returned false.
PollQuit(q, ok) == q \/ ~ok

\* A failed Poll leaving the iteration at once for the loop test.
AfterPollBreak(ok) == IF ok THEN "UI" ELSE "while"

\* Lines 580-597: whatever Poll returned, the UI controls are checked next.
AfterPoll(ok) == "UI"

\* Lines 579-580: Inputs->Poll(); a false result sets quit.
PollStep(results, sets) ==
  /\ pc = "Poll"
  /\ \E ok \in results, P \in sets :
       /\ pressed' = P
       /\ pollFailed' = ~ok
       /\ quit' = PollQuit(quit, ok)
       /\ pc' = AfterPoll(ok)
  /\ log' = log \o << "Poll" >>
  /\ UNCHANGED << logVars, scrVars, status, resVars, envVars, Model3, paused, showCursor, mouseVisible,
                  saveSlot, filePath, stdoutSlots, cntVars, clockVars >>

\* The chain with the commands after uiPause skipped while paused.
UICommandGatedByPause(P, fullScreen) ==
  IF "uiExit" \in P THEN "uiExit"
  ELSE IF "uiReset" \in P THEN "uiReset"
  ELSE IF "uiPause" \in P THEN "uiPause"
  ELSE IF paused THEN "none"
  ELSE IF "uiSaveState" \in P THEN "uiSaveState"
  ELSE IF "uiChangeSlot" \in P THEN "uiChangeSlot"
  ELSE IF "uiLoadState" \in P THEN "uiLoadState"
  ELSE IF "uiDumpInpState" \in P THEN "uiDumpInpState"
  ELSE IF "uiToggleCursor" \in P /\ fullScreen THEN "uiToggleCursor"
  ELSE IF "uiClearNVRAM" \in P THEN "uiClearNVRAM"
  ELSE IF "uiToggleFrLimit" \in P THEN "uiToggleFrLimit"
  ELSE "none"

\* The chain with uiReset tested before uiExit.
UICommandResetFirst(P, fullScreen) ==
  IF "uiReset" \in P THEN "uiReset"
  ELSE IF "uiExit" \in P THEN "uiExit"
  ELSE IF "uiPause" \in P THEN "uiPause"
  ELSE IF "uiSaveState" \in P THEN "uiSaveState"
  ELSE IF "uiChangeSlot" \in P THEN "uiChangeSlot"
  ELSE IF "uiLoadState" \in P THEN "uiLoadState"
  ELSE IF "uiDumpInpState" \in P THEN "uiDumpInpState"
  ELSE IF "uiToggleCursor" \in P /\ fullScreen THEN "uiToggleCursor"
  ELSE IF "uiClearNVRAM" \in P THEN "uiClearNVRAM"
  ELSE IF "uiToggleFrLimit" \in P THEN "uiToggleFrLimit"
  ELSE "none"

\* The chain with uiToggleCursor honored in a window too.
UICommandCursorAlways(P, fullScreen) ==
  IF "uiExit" \in P THEN "uiExit"
  ELSE IF "uiReset" \in P THEN "uiReset"
  ELSE IF "uiPause" \in P THEN "uiPause"
  ELSE IF "uiSaveState" \in P THEN "uiSaveState"
  ELSE IF "uiChangeSlot" \in P THEN "uiChangeSlot"
  ELSE IF "uiLoadState" \in P THEN "uiLoadState"
  ELSE IF "uiDumpInpState" \in P THEN "uiDumpInpState"
  ELSE IF "uiToggleCursor" \in P THEN "uiToggleCursor"
  ELSE IF "uiClearNVRAM" \in P THEN "uiClearNVRAM"
  ELSE IF "uiToggleFrLimit" \in P THEN "uiToggleFrLimit"
  ELSE "none"

\* Lines 597-665: the branch of the if / else-if chain that is taken.
UICommand(P, fullScreen) ==
  IF "uiExit" \in P THEN "uiExit"
  ELSE IF "uiReset" \in P THEN "uiReset"
  ELSE IF "uiPause" \in P THEN "uiPause"
  ELSE IF "uiSaveState" \in P THEN "uiSaveState"
  ELSE IF "uiChangeSlot" \in P THEN "uiChangeSlot"
  ELSE IF "uiLoadState" \in P THEN "uiLoadState"
  ELSE IF "uiDumpInpState" \in P THEN "uiDumpInpState"
  ELSE IF "uiToggleCursor" \in P /\ fullScreen THEN "uiToggleCursor"
  ELSE IF "uiClearNVRAM" \in P THEN "uiClearNVRAM"
  ELSE IF "uiToggleFrLimit" \in P THEN "uiToggleFrLimit"
  ELSE "none"

\* quit assigned from the Exit input instead of set by it.
UIQuitAssigned(q, c) == c = "uiExit"

\* Line 600: quit = 1.
UIQuit(q, c) == q \/ c = "uiExit"

\* Line 618: paused = !paused.
UIPaused(p, c) == IF c = "uiPause" THEN ~p ELSE p

\* The increment without the clamp.
NextSlotNoClamp(slot) == slot + 1

\* Lines 628-629: ++saveSlot; saveSlot %= 10.
NextSlot(slot) == (slot + 1) % NumSlots

UIStep ==
  /\ pc = "UI"
  /\ LET c == UICommand(pressed, g_Config.fullScreen)
     IN \E createOk \in BOOLEAN :
          LET sv == SaveState(Model3, gameId, saveSlot, disk, createOk)
              ld == LoadState(Model3, gameId, saveSlot, disk)
          IN /\ quit' = UIQuit(quit, c)
             /\ paused' = UIPaused(paused, c)
             /\ Model3' = CASE c = "uiReset" -> M3Reset(Model3)
                            [] c = "uiLoadState" -> ld.m
                            [] c = "uiClearNVRAM" -> M3ClearNVRAM(Model3)
                            [] OTHER -> Model3
             /\ disk' = IF c = "uiSaveState" THEN sv.disk ELSE disk
             /\ saveSlot' = IF c = "uiChangeSlot" THEN NextSlot(saveSlot) ELSE saveSlot
             /\ showCursor' = IF c = "uiToggleCursor" THEN ~showCursor ELSE showCursor
             /\ mouseVisible' = IF c = "uiToggleCursor" THEN ~showCursor ELSE mouseVisible
             /\ g_Config' = IF c = "uiToggleFrLimit"
                            THEN [g_Config EXCEPT !.throttle = ~g_Config.throttle]
                            ELSE g_Config
             /\ filePath' = CASE c = "uiSaveState" -> sv.path
                              [] c = "uiLoadState" -> ld.path
                              [] OTHER -> filePath
             /\ openFiles' = CASE c = "uiSaveState" -> OpenAfter(openFiles, sv.path, sv.ev)
                               [] c = "uiLoadState" -> OpenAfter(openFiles, ld.path, ld.ev)
                               [] OTHER -> openFiles
             /\ stdoutSlots' = IF c = "uiChangeSlot"
                               THEN Append(stdoutSlots, NextSlot(saveSlot))
                               ELSE stdoutSlots
             /\ log' = log \o (IF c = "none" THEN << >> ELSE << c >>)
                           \o (CASE c = "uiSaveState" -> sv.ev
                                 [] c = "uiLoadState" -> ld.ev
                                 [] OTHER -> << >>)
  /\ pc' = "FPS"
  /\ UNCHANGED << logVars, scrVars, status, held, released, gameId, inVars, cntVars,
                  clockVars >>

\* Line 697: startTicks + (unsigned) ((float)framesElapsed * 1000.0f/60.0f),
\* for framesElapsed below 2^21: the product and the quotient are each
\* rounded to a float.
TargetTicks(start, frames) ==
  start + F32ToUnsigned(F32Quot(F32OfInt(frames * MsPerSec).m, FrameRate, 0))

\* The rate as frames per second of elapsed time.
FPSRatePerSecond(frames, elapsed) == F32Quot(frames * MsPerSec, elapsed, 0)

\* Line 686: (float)fpsFramesElapsed*(float)(currentFPSTicks-prevFPSTicks)
\* /1000.0f, for a product below 2^31: the product and the quotient are
\* each rounded to a float.
FPSRate(frames, elapsed) == F32Quot(F32OfInt(frames * elapsed).m, MsPerSec, 0)

\* Line 686: a float below 2^24 formatted by %1.1f, as the number of tenths
\* printed: the value is rounded to one decimal, ties to even.
FormatTenths(f) == RoundShift(f.m * 10, f.s, FALSE)

\* Lines 681-691: the frame rate is shown once a second, if enabled.
\* The result is the FPS fields, whether the caption was set and the rate
\* formatted into it (-1 if none was).
FPS(showFPS, now, prev, frames) ==
  IF showFPS
  THEN IF now - prev >= MsPerSec
       THEN [prevFPSTicks |-> now, fpsFramesElapsed |-> 0, caption |-> TRUE,
             title |-> FormatTenths(FPSRate(frames + 1, now - prev))]
       ELSE [prevFPSTicks |-> prev, fpsFramesElapsed |-> frames + 1, caption |-> FALSE,
             title |-> -1]
  ELSE [prevFPSTicks |-> prev, fpsFramesElapsed |-> frames, caption |-> FALSE,
        title |-> -1]

\* Frame limiting that keeps its epoch when the target was overshot.
PaceRepaying(limited, now, start, frames) ==
  IF limited
  THEN IF now <= TargetTicks(start, frames + 1)
       THEN [startTicks |-> start, framesElapsed |-> frames + 1,
             delay |-> TargetTicks(start, frames + 1) - now]
       ELSE [startTicks |-> start, framesElapsed |-> frames + 1, delay |-> -1]
  ELSE [startTicks |-> start, framesElapsed |-> frames, delay |-> -1]

\* Lines 694-705: frame limiting, also while paused. The result is the
\* pacing fields and the SDL_Delay argument (-1: SDL_Delay is not called).
Pace(limited, now, start, frames) ==
  IF limited
  THEN IF now <= TargetTicks(start, frames + 1)
       THEN [startTicks |-> start, framesElapsed |-> frames + 1,
             delay |-> TargetTicks(start, frames + 1) - now]
       ELSE [startTicks |-> now, framesElapsed |-> 0, delay |-> -1]
  ELSE [startTicks |-> start, framesElapsed |-> frames, delay |-> -1]

\* Frame limiting decided by the throttle setting alone.
LimitedByThrottleOnly(isPaused, throttle) == throttle

\* Line 694: if (paused || g_Config.throttle).
Limited(isPaused, throttle) == isPaused \/ throttle

\* Lines 676-705: the clock is read once (d ms after its last value), then
\* the FPS display and the frame limiting use that reading. SDL_Delay
\* returns after the requested time. now, f and p are the values computed
\* once by that code.
TimingStep(deltas) ==
  /\ pc = "FPS"
  /\ \E d \in deltas :
       \E now \in {ticks + d} :
         \E f \in {FPS(g_Config.showFPS, now, prevFPSTicks, fpsFramesElapsed)},
            p \in {Pace(Limited(paused, g_Config.throttle), now, startTicks,
                      framesElapsed)} :
          /\ prevFPSTicks' = f.prevFPSTicks
          /\ fpsFramesElapsed' = f.fpsFramesElapsed
          /\ startTicks' = p.startTicks
          /\ framesElapsed' = p.framesElapsed
          /\ lastDelay' = p.delay
          /\ titleFPSStr' = IF f.caption THEN f.title ELSE titleFPSStr
          /\ ticks' = IF p.delay >= 0 THEN now + p.delay ELSE now
          /\ log' = log \o (IF f.caption THEN << "SetCaption" >> ELSE << >>)
                        \o (IF p.delay >= 0 THEN << "SDL_Delay" >> ELSE << >>)
  /\ pc' = "while"
  /\ UNCHANGED << logVars, scrVars, status, resVars, envVars, Model3, uiVars, inVars, filePath,
                  stdoutSlots, cntVars >>

\* ------------------------------------------------------------- teardown
\* Line 718: SaveNVRAM(Model3).
SaveNVRAMStep ==
  /\ pc = "SaveNVRAM"
  /\ \E createOk \in BOOLEAN :
       LET r == SaveNVRAM(Model3, gameId, disk, createOk)
       IN /\ disk' = r.disk
          /\ log' = log \o << "SaveNVRAM" >> \o r.ev
          /\ filePath' = r.path
          /\ openFiles' = OpenAfter(openFiles, r.path, r.ev)
  /\ nSaveNVRAM' = nSaveNVRAM + 1
  /\ pc' = "CloseAudio"
  /\ UNCHANGED << logVars, scrVars, status, held, released, gameId, g_Config, Model3, uiVars, inVars,
                  stdoutSlots, iter, itersNotPaused, nRunFrame, clockVars >>

\* Lines 721-757: CloseAudio(), the machine and the renderers are deleted,
\* return 0.
ShutDownStep ==
  /\ pc = "CloseAudio"
  /\ held' = held \ Resources
  /\ released' = [r \in Resources |-> released[r] + 1]
  /\ log' = log \o << "CloseAudio", "delete" >>
  /\ pc' = "returned"
  /\ status' = 0
  /\ UNCHANGED << logVars, scrVars, openFiles, envVars, Model3, uiVars, inVars, filePath,
                  stdoutSlots, cntVars, clockVars >>

\* ------------------------------------------------------- specifications
InitSteps(configs, modes) ==
  \/ Model3InitStep
  \/ LoadROMSetStep(configs)
  \/ LoadNVRAMStep
  \/ CreateGLScreenStep(modes)
  \/ OpenAudioStep
  \/ Render2DInitStep
  \/ Render3DInitStep
  \/ EmulateStep
  \/ QuitErrorStep

ExitSteps ==
  \/ SaveNVRAMStep
  \/ ShutDownStep

\* The display has the resolution that was requested.
GrantedMode == { [current_w |-> g_Config.xRes, current_h |-> g_Config.yRes] }

\* Frames that take no measurable time.
InstantFrames == {0}

\* Any session of at most MaxIter loop iterations in which every Poll may
\* fail and may assert up to MaxPressed UI inputs at once.
Next ==
  \/ InitSteps(Configs, GrantedMode)
  \/ WhileStep(MaxIter)
  \/ FrameStep
  \/ PollStep(BOOLEAN, PressedSets(MaxPressed))
  \/ UIStep
  \/ TimingStep(InstantFrames)
  \/ ExitSteps

Spec == Init /\ [][Next]_vars

\* The same sessions, in which the program goes on running: a step that can
\* be taken is taken.
FairSpec == Spec /\ WF_vars(Next)

\* Sessions of the first game of up to MaxSlotIter iterations, windowed and
\* throttled, in which the user works with the save slots only: each Poll
\* succeeds and asserts at most one of uiSaveState, uiChangeSlot, uiLoadState.
SlotConfigs ==
  { [throttle |-> TRUE, fullScreen |-> FALSE, showFPS |-> FALSE,
     xRes |-> Model3Width, yRes |-> Model3Height] }

SlotPressedSets == { {}, {"uiSaveState"}, {"uiChangeSlot"}, {"uiLoadState"} }

InitSlots == Init /\ gameId = GameList[1]

NextSlots ==
  \/ InitSteps(SlotConfigs, GrantedMode)
  \/ WhileStep(MaxSlotIter)
  \/ FrameStep
  \/ PollStep({TRUE}, SlotPressedSets)
  \/ UIStep
  \/ TimingStep(InstantFrames)

SpecSlots == InitSlots /\ [][NextSlots]_vars

\* Sessions of the first game of up to MaxPaceIter iterations in which the
\* user pauses and toggles the frame limiting, and in which the loop body
\* takes no time, 2 ms, 20 ms (more than a frame) or 500 ms (a stall).
PaceConfigs ==
  [throttle : BOOLEAN, fullScreen : {FALSE}, showFPS : {FALSE},
   xRes : {Model3Width}, yRes : {Model3Height}]

PacePressedSets == { {}, {"uiPause"}, {"uiToggleFrLimit"} }

FrameTimes == {0, 2, 20, 500}

NextPace ==
  \/ InitSteps(PaceConfigs, GrantedMode)
  \/ WhileStep(MaxPaceIter)
  \/ FrameStep
  \/ PollStep({TRUE}, PacePressedSets)
  \/ UIStep
  \/ TimingStep(FrameTimes)

SpecPace == InitSlots /\ [][NextPace]_vars

\* A session of the first game, windowed and throttled, that was paused in
\* its first iteration and has stayed paused for n iterations in all, each
\* of them completing within the millisecond: every iteration was paced and
\* none overshot its target, so framesElapsed is n and the clock has reached
\* the target of frame n.
LongRunState(n) ==
  /\ pc = "while"
  /\ status = -1
  /\ held = Resources
  /\ released = [r \in Resources |-> 0]
  /\ openFiles = {}
  /\ gameId = GameList[1]
  /\ g_Config = [throttle |-> TRUE, fullScreen |-> FALSE, showFPS |-> FALSE,
                 xRes |-> Model3Width, yRes |-> Model3Height]
  /\ Model3 \in M3RunFrame(M3Reset(NewMachine))
  /\ disk = PreDisk(gameId)
  /\ quit = FALSE
  /\ paused = TRUE
  /\ showCursor = FALSE
  /\ mouseVisible = TRUE
  /\ saveSlot = 0
  /\ pollFailed = FALSE
  /\ pressed = {}
  /\ log = << "Poll", "SDL_Delay" >>
  /\ filePath = << >>
  /\ stdoutSlots = << >>
  /\ iter = n
  /\ itersNotPaused = 1
  /\ nRunFrame = 1
  /\ nSaveNVRAM = 0
  /\ ticks = TargetTicks(0, n)
  /\ prevFPSTicks = 0
  /\ fpsFramesElapsed = 0
  /\ framesElapsed = n
  /\ startTicks = 0
  /\ lastDelay = TargetTicks(0, n) - TargetTicks(0, n - 1)
  /\ titleFPSStr = -1
  /\ xOffset = 0
  /\ yOffset = 0
  /\ xRes = Model3Width
  /\ yRes = Model3Height
  /\ VideoInfo = [current_w |-> Model3Width, current_h |-> Model3Height]
  /\ s_Logger = "Logger"
  /\ loggerCalls = << >>
  /\ logReturns = << >>

\* The next MaxLongIter iterations of such a session after LongRun
\* iterations (about 75 minutes): the user may resume, and the loop body
\* takes no time or 1 ms.
InitLong == LongRunState(LongRun)

NextLong ==
  \/ WhileStep(LongRun + MaxLongIter)
  \/ FrameStep
  \/ PollStep({TRUE}, PacePressedSets)
  \/ UIStep
  \/ TimingStep({0, 1})

SpecLong == InitLong /\ [][NextLong]_vars

\* Sessions of the first game of up to MaxFPSIter iterations, with and
\* without the FPS display and the frame limiting, in which the user may
\* pause and the loop body takes no time, 400 ms or 1500 ms.
FPSConfigs ==
  [throttle : BOOLEAN, fullScreen : {FALSE}, showFPS : BOOLEAN,
   xRes : {Model3Width}, yRes : {Model3Height}]

FPSPressedSets == { {}, {"uiPause"} }

FPSFrameTimes == {0, 400, 1500}

NextFPS ==
  \/ InitSteps(FPSConfigs, GrantedMode)
  \/ WhileStep(MaxFPSIter)
  \/ FrameStep
  \/ PollStep({TRUE}, FPSPressedSets)
  \/ UIStep
  \/ TimingStep(FPSFrameTimes)

SpecFPS == InitSlots /\ [][NextFPS]_vars

\* Sessions of the game with the longest id, of up to MaxPathIter
\* iterations, in each of which the user changes the slot, saves or loads a
\* state, or leaves.
PathPressedSets == { {"uiChangeSlot"}, {"uiSaveState"}, {"uiLoadState"}, {"uiExit"} }

InitPaths == Init /\ \A id \in GameIds : Len(id) <= Len(gameId)

NextPaths ==
  \/ InitSteps(SlotConfigs, GrantedMode)
  \/ WhileStep(MaxPathIter)
  \/ FrameStep
  \/ PollStep({TRUE}, PathPressedSets)
  \/ UIStep
  \/ TimingStep(InstantFrames)
  \/ ExitSteps

SpecPaths == InitPaths /\ [][NextPaths]_vars

\* The program before the session: up to MaxLogCalls calls of the logging
\* functions, with loggers installed and removed between them.
NextLog ==
  \/ SetLoggerStep
  \/ DebugLogStep
  \/ InfoLogStep
  \/ ErrorLogStep

InitLog == InitNoLogger /\ gameId = GameList[1]

SpecLog == InitLog /\ [][NextLog]_vars

\* Sessions of the first game up to the creation of the display, for
\* requests of 1..MaxSmallRes pixels and of common sizes, on displays of
\* the same sizes: the display can be larger or smaller than the request.
GLWidths == (1 .. MaxSmallRes) \cup {320, 496, 640, 651, 800, 1024, 1280}

GLHeights == (1 .. MaxSmallRes) \cup {240, 384, 480, 504, 600, 768, 792, 1024}

GLConfigs ==
  [throttle : {TRUE}, fullScreen : BOOLEAN, showFPS : {FALSE},
   xRes : GLWidths, yRes : GLHeights]

VideoModes == [current_w : GLWidths, current_h : GLHeights]

NextGL ==
  \/ Model3InitStep
  \/ LoadROMSetStep(GLConfigs)
  \/ LoadNVRAMStep
  \/ CreateGLScreenStep(VideoModes)

SpecGL == InitSlots /\ [][NextGL]_vars

\* ============================================================== claims
\* The calls a step appends to the log, and the UI commands among them.
NewCalls == SubSeq(log', Len(log) + 1, Len(log'))

Applied == { NewCalls[i] : i \in DOMAIN NewCalls } \cap UIInputs

\* The priority order of the UI commands, highest first.
Priority ==
  << "uiExit", "uiReset", "uiPause", "uiSaveState", "uiChangeSlot", "uiLoadState",
     "uiDumpInpState", "uiToggleCursor", "uiClearNVRAM", "uiToggleFrLimit" >>

Rank(c) == CHOOSE i \in DOMAIN Priority : Priority[i] = c

Highest(P) ==
  IF P = {} THEN "none" ELSE CHOOSE c \in P : \A d \in P : Rank(c) <= Rank(d)

\* A step in which no command but c is applied and nothing changes that c
\* does not change.
OnlyEffectOf(c) ==
  /\ Applied \subseteq {c}
  /\ (quit' # quit) => c = "uiExit"
  /\ (paused' # paused) => c = "uiPause"
  /\ (saveSlot' # saveSlot) => c = "uiChangeSlot"
  /\ (g_Config' # g_Config) => c = "uiToggleFrLimit"
  /\ (showCursor' # showCursor \/ mouseVisible' # mouseVisible) => c = "uiToggleCursor"
  /\ (Model3' # Model3) => c \in {"uiReset", "uiLoadState", "uiClearNVRAM"}
  /\ (disk' # disk) => c = "uiSaveState"

\* The inputs the dispatch honors: uiToggleCursor only in full screen.
Honored(P) == IF g_Config.fullScreen THEN P ELSE P \ {"uiToggleCursor"}

\* C1 as stated: in every iteration only the highest-priority pressed UI
\* command has an effect, whatever else is pressed with it.
C1_HighestPressedOnly == [][pc = "UI" => OnlyEffectOf(Highest(pressed))]_vars

\* C1 as amended: in every iteration exactly the highest-priority pressed UI
\* command is applied, where uiToggleCursor counts as pressed only in full
\* screen; no other command is applied and nothing changes that the applied
\* command does not change.
C1_HighestHonoredOnly ==
  [][pc = "UI" =>
       LET c == Highest(Honored(pressed))
       IN OnlyEffectOf(c) /\ (c # "none" => Applied = {c})]_vars

\* Two commands were pressed at once and one of them was applied.
C1_Witness ==
  /\ pc = "FPS"
  /\ Cardinality(pressed) = 2
  /\ Cardinality({ i \in DOMAIN log : log[i] \in pressed }) = 1

\* The session state of the spec, read from the two flags.
SessionState(q, p) == IF q THEN "Quit" ELSE IF p THEN "Paused" ELSE "Running"

\* C2: the session is Running at loop entry; it changes only between Running
\* and Paused by an applied uiPause, or to Quit by an applied uiExit or a
\* failed Poll; Quit is never left and no iteration begins after it.
C2_SessionStateMachine ==
  /\ [](pc = "Emulate" => SessionState(quit, paused) = "Running")
  /\ [][LET old == SessionState(quit, paused)
            new == SessionState(quit', paused')
        IN /\ (old # new /\ new = "Quit") =>
                \/ pc = "Poll" /\ pollFailed'
                \/ pc = "UI" /\ Applied = {"uiExit"}
           /\ (old # new /\ new # "Quit") =>
                /\ old # "Quit"
                /\ pc = "UI" /\ Applied = {"uiPause"}
           /\ quit => (quit' /\ iter' = iter)]_vars

\* A failed Poll has taken a paused session to Quit and uiPause was applied
\* after it in the same iteration.
C2_Witness ==
  /\ pc = "FPS"
  /\ pollFailed
  /\ quit
  /\ \E i \in DOMAIN log : log[i] = "uiPause"

\* The calls of the log that are RunFrame, SwapBuffers or Poll, in order.
FrameAndPoll == SelectSeq(log, LAMBDA e : e \in {"RunFrame", "SwapBuffers", "Poll"})

\* C3: an iteration begun while not paused makes one RunFrame call followed
\* by one SwapBuffers call, both before its Poll; an iteration begun while
\* paused makes neither; so the RunFrame calls are as many as the iterations
\* begun while not paused.
C3_OneFramePerRunningIteration ==
  /\ [](pc \in {"UI", "FPS"} =>
          FrameAndPoll \in { << "RunFrame", "SwapBuffers", "Poll" >>, << "Poll" >> })
  /\ [](pc \notin {"RunFrame"} => nRunFrame = itersNotPaused)
  /\ [][pc = "RunFrame" =>
          IF paused
          THEN log' = log /\ nRunFrame' = nRunFrame
          ELSE log' = log \o << "RunFrame", "SwapBuffers" >> /\ nRunFrame' = nRunFrame + 1]_vars

\* The second iteration began paused and polled without running a frame.
C3_Witness ==
  /\ pc = "UI"
  /\ iter = 2
  /\ itersNotPaused = 1
  /\ nRunFrame = 1
  /\ log = << "Poll" >>

\* C4 as stated: on every exit path SaveNVRAM is called exactly once.
C4_SavedOnEveryExit == pc = "returned" => nSaveNVRAM = 1

\* C4 as amended: SaveNVRAM is called exactly once on the exit path through
\* the loop (return 0) and not at all on the early exits of initialisation
\* (return 1); it is never called twice.
C4_SavedOnLoopExitOnly ==
  /\ nSaveNVRAM <= 1
  /\ pc = "returned" => nSaveNVRAM = (IF status = 0 THEN 1 ELSE 0)

\* The session ran its iterations, left the loop and returned 0.
C4_Witness == pc = "returned" /\ status = 0 /\ iter = MaxIter /\ nSaveNVRAM = 1

\* C5: at return every resource acquired has been released exactly once
\* (nothing is still held, nothing was released twice).
C5_AllReleasedAtReturn ==
  pc = "returned" => (held = {} /\ \A r \in Resources : released[r] <= 1)

\* The set of calls a step appends to the log.
NewCallSet == { NewCalls[i] : i \in DOMAIN NewCalls }

\* A file a load must refuse: it cannot be opened, or it has no top-level
\* block of that name, or its stored version is not the expected one.
Refused(f, name, version) ==
  \/ ~f.exists
  \/ f.name # name
  \/ ReadInt(f.data) # version

\* C6: a LoadState or LoadNVRAM of a file that cannot be opened, lacks the
\* expected block or stores another format version never reaches the
\* machine's deserializer and leaves the machine state as it was.
C6_RefusedLoadKeepsMachine ==
  [][/\ (/\ pc = "UI"
         /\ "uiLoadState" \in Applied
         /\ Refused(disk[StatePath(gameId, saveSlot)], SaveStateBlock, 1))
          => (Model3' = Model3 /\ "Model3->LoadState" \notin NewCallSet)
     /\ (/\ pc = "LoadNVRAM"
         /\ Refused(disk[NVRAMPath(gameId)], NVRAMBlock, 0))
          => (Model3' = Model3 /\ "Model3->LoadNVRAM" \notin NewCallSet)]_vars

\* A LoadState stopped at the version test, with a machine state that is
\* not the one stored in the file.
C6_Witness ==
  /\ pc = "FPS"
  /\ \E i \in DOMAIN log :
       SubSeq(log, i, Len(log)) = << "uiLoadState", "Load", "FindBlock", "Read", "ErrorLog" >>
  /\ Model3 # M3LoadState(Model3, disk[StatePath(gameId, saveSlot)].body)

\* The header of a container as a reader finds it: the version in the
\* first four bytes, then the id with its nul and nothing else.
HeaderReadsBack(f, name, version, id) ==
  /\ f.exists
  /\ f.name = name
  /\ Len(f.data) = 4 + Len(id) + 1
  /\ ReadInt(SubSeq(f.data, 1, 4)) = version
  /\ CString(f.data, 5) = id
  /\ f.data[Len(f.data)] = 0

CallsOf(r) == { r.ev[i] : i \in DOMAIN r.ev }

\* C7: the container SaveState (SaveNVRAM) has written reads back with the
\* version (4 bytes, first) and the id (strlen+1 bytes) that were written,
\* and a LoadState (LoadNVRAM) of it reaches the machine's deserializer.
C7_HeaderRoundTrip ==
  [][/\ (pc = "UI" /\ "Model3->SaveState" \in NewCallSet)
          => /\ HeaderReadsBack(disk'[StatePath(gameId, saveSlot)], SaveStateBlock, 1, gameId)
             /\ "Model3->LoadState" \in CallsOf(LoadState(Model3', gameId, saveSlot', disk'))
     /\ (pc = "SaveNVRAM" /\ "Model3->SaveNVRAM" \in NewCallSet)
          => /\ HeaderReadsBack(disk'[NVRAMPath(gameId)], NVRAMBlock, 0, gameId)
             /\ "Model3->LoadNVRAM" \in CallsOf(LoadNVRAM(Model3', gameId, disk'))]_vars

\* A save state was written in the first iteration and loaded back in the
\* second.
C7_Witness ==
  /\ pc = "FPS"
  /\ iter = 2
  /\ \E i \in DOMAIN log : log[i] = "Model3->LoadState"
  /\ HeaderReadsBack(disk[filePath], SaveStateBlock, 1, gameId)
  /\ disk[filePath] # PreStateFile(gameId, saveSlot)

\* C8: the slot is always in 0..9; it starts at 0; only an applied
\* uiChangeSlot changes it, to (slot+1) mod 10; ten applications bring it
\* back to where it was.
C8_SlotInRange ==
  /\ [](saveSlot \in 0 .. 9)
  /\ [](stdoutSlots = << >> => saveSlot = 0)
  /\ [](\A i \in DOMAIN stdoutSlots :
          /\ (i = 10) => stdoutSlots[i] = 0
          /\ (i + 10 \in DOMAIN stdoutSlots) => stdoutSlots[i + 10] = stdoutSlots[i])
  /\ [][/\ (saveSlot' # saveSlot) => (pc = "UI" /\ Applied = {"uiChangeSlot"})
        /\ (pc = "UI" /\ "uiChangeSlot" \in Applied)
             => (saveSlot' = (saveSlot + 1) % 10 /\ stdoutSlots' = Append(stdoutSlots, saveSlot'))]_vars

\* The slot was changed eleven times: it went from 9 to 0 and on to 1.
C8_Witness ==
  /\ Len(stdoutSlots) = 11
  /\ stdoutSlots[9] = 9
  /\ saveSlot = 1

\* The path Saves/{id}.st{slot} of a slot in 0..9.
SlotPath(slot) == SavesDir \o gameId \o StExt \o << 48 + slot >>

\* C9: SaveState writes and LoadState reads the container of the current
\* slot and no other: a save leaves the nine other containers as they were;
\* after k applied uiChangeSlot the current slot is (s+k) mod 10.
C9_CurrentSlotAddressed ==
  /\ [](saveSlot = Len(stdoutSlots) % 10)
  /\ [][(pc = "UI" /\ "uiSaveState" \in Applied)
          => /\ filePath' = SlotPath(saveSlot)
             /\ \A p \in DOMAIN disk : p # SlotPath(saveSlot) => disk'[p] = disk[p]
             /\ ("Model3->SaveState" \in NewCallSet)
                  => disk'[SlotPath(saveSlot)].body = M3SaveState(Model3)]_vars
  /\ [][(pc = "UI" /\ "uiLoadState" \in Applied)
          => /\ filePath' = SlotPath(saveSlot)
             /\ IF "Model3->LoadState" \in NewCallSet
                THEN Model3' = M3LoadState(Model3, disk[SlotPath(saveSlot)].body)
                ELSE Model3' = Model3]_vars

\* A state was saved at slot 3 (where no file was), the slot was changed
\* seven times and LoadState then read slot 0, whose file is refused.
C9_Witness ==
  /\ pc = "FPS"
  /\ Len(stdoutSlots) = 10
  /\ saveSlot = 0
  /\ disk[SlotPath(3)].exists
  /\ ~PreStateFile(gameId, 3).exists
  /\ filePath = SlotPath(0)
  /\ \E i \in DOMAIN log : log[i] = "uiLoadState"
  /\ \A i \in DOMAIN log : log[i] # "Model3->LoadState"

\* C10: uiSaveState, uiChangeSlot, uiLoadState, uiDumpInpState,
\* uiToggleCursor (full screen), uiClearNVRAM and uiToggleFrLimit, when the
\* highest-priority pressed command, take their effect whether the session is
\* running or paused, and leave paused as it is.
C10_NotGatedByPause ==
  [][pc = "UI" =>
       LET c == Highest(Honored(pressed))
       IN (c \notin {"none", "uiExit", "uiReset", "uiPause"}) =>
            /\ Applied = {c}
            /\ paused' = paused
            /\ (c = "uiSaveState") =>
                 \/ "Create:FAIL" \in NewCallSet
                 \/ disk'[SlotPath(saveSlot)] = Container(SaveStateBlock, 1, gameId, M3SaveState(Model3))
            /\ (c = "uiChangeSlot") => saveSlot' = (saveSlot + 1) % 10
            /\ (c = "uiLoadState") =>
                 IF Refused(disk[SlotPath(saveSlot)], SaveStateBlock, 1)
                 THEN Model3' = Model3
                 ELSE Model3' = M3LoadState(Model3, disk[SlotPath(saveSlot)].body)
            /\ (c = "uiToggleCursor") =>
                 (showCursor' = ~showCursor /\ mouseVisible' = showCursor')
            /\ (c = "uiClearNVRAM") => Model3' = M3ClearNVRAM(Model3)
            /\ (c = "uiToggleFrLimit") => g_Config'.throttle = ~g_Config.throttle]_vars

\* An iteration that began paused saved the state, and stayed paused.
C10_Witness ==
  /\ pc = "FPS"
  /\ paused
  /\ \A i \in DOMAIN log : log[i] # "RunFrame"
  /\ \E i \in DOMAIN log : log[i] = "Model3->SaveState"

\* C11: a failed Poll sets quit; no further iteration begins; the session
\* goes on to return 0, and on that way SaveNVRAM is called after the last
\* RunFrame and before CloseAudio and the deletion of the objects.
C11_FailedPollQuitsInOrder ==
  /\ [](pollFailed => quit)
  /\ [][pollFailed => (iter' = iter /\ nRunFrame' = nRunFrame)]_vars
  /\ [](pc = "returned" /\ status = 0 =>
          \E i, j \in DOMAIN log :
            /\ log[i] = "SaveNVRAM"
            /\ log[j] = "CloseAudio"
            /\ i < j
            /\ j + 1 = Len(log) /\ log[j + 1] = "delete"
            /\ \A k \in DOMAIN log : log[k] = "RunFrame" => k < i
            /\ held = {})
  /\ pollFailed ~> (pc = "returned" /\ status = 0 /\ nSaveNVRAM = 1)

\* A session whose Poll failed in an iteration that ran a frame has returned
\* 0 without uiExit.
C11_Witness ==
  /\ pc = "returned"
  /\ status = 0
  /\ pollFailed
  /\ \E i \in DOMAIN log : log[i] = "RunFrame"
  /\ \A i \in DOMAIN log : log[i] # "uiExit"

\* The log entries of failed initialisation calls.
InitFailures ==
  { "Model3->Init:FAIL", "LoadROMSet:FAIL", "CreateGLScreen:FAIL", "OpenAudio:FAIL",
    "Render2D->Init:FAIL", "Render3D->Init:FAIL" }

\* No frame was run, no input polled and no UI command applied.
LoopNotEntered ==
  /\ iter = 0
  /\ nRunFrame = 0
  /\ \A i \in DOMAIN log : log[i] \notin ({"RunFrame", "SwapBuffers", "Poll"} \cup UIInputs)

\* C12: a failed Model3->Init, LoadROMSet, CreateGLScreen, OpenAudio,
\* Render2D->Init or Render3D->Init ends the session with a nonzero status
\* and the loop not entered; a session that entered the loop returns 0.
C12_InitFailureFatal ==
  /\ [][(NewCallSet \cap InitFailures # {}) =>
          /\ pc' \in {"returned", "QuitError"}
          /\ pc' = "returned" => status' \notin {-1, 0}]_vars
  /\ [][pc = "QuitError" => (pc' = "returned" /\ status' \notin {-1, 0})]_vars
  /\ [](pc = "QuitError" \/ status \notin {-1, 0} => LoopNotEntered)
  /\ [](pc = "returned" /\ iter >= 1 => status = 0)
  /\ [](pc \in {"while", "RunFrame", "Poll", "UI", "FPS"} =>
          \A i \in DOMAIN log : log[i] \notin InitFailures)

\* The 3D renderer failed to initialise and the session returned 1.
C12_Witness ==
  /\ pc = "returned"
  /\ status = 1
  /\ log # << >>
  /\ log[Len(log)] = "Render3D->Init:FAIL"
  /\ LoopNotEntered

\* C13: a SaveState whose file cannot be created, or a LoadState whose file
\* cannot be opened, calls neither Model3->SaveState nor Model3->LoadState
\* and changes nothing: quit, paused, the slot, the throttle flag, the
\* machine and the files are as before and the iteration goes on.
C13_IOFailureChangesNothing ==
  [][(pc = "UI" /\ NewCallSet \cap {"Create:FAIL", "Load:FAIL"} # {}) =>
       /\ NewCallSet \cap {"Model3->SaveState", "Model3->LoadState"} = {}
       /\ "ErrorLog" \in NewCallSet
       /\ UNCHANGED << quit, paused, saveSlot, g_Config, Model3, disk, status >>
       /\ pc' = "FPS"]_vars

\* In the second iteration of a running session a save state could not be
\* created; the session is still running.
C13_Witness ==
  /\ pc = "FPS"
  /\ iter = 2
  /\ ~quit /\ ~paused
  /\ \E i \in DOMAIN log : log[i] = "Create:FAIL"

\* The number of entries of a sequence that are e.
Count(seq, e) == Cardinality({ i \in DOMAIN seq : seq[i] = e })

\* C14: a session that reaches the loop has attempted LoadNVRAM exactly once,
\* after LoadROMSet and before any RunFrame; SaveNVRAM is called when the
\* loop is left, after the last RunFrame; a missing NVRAM file is not an
\* error: the machine is untouched, ErrorLog is not called and
\* initialisation goes on.
C14_NVRAMAutoLoadSave ==
  /\ [](pc = "while" /\ iter = 0 =>
          /\ Count(log, "LoadNVRAM") = 1
          /\ \E i, j \in DOMAIN log :
               i < j /\ log[i] = "LoadROMSet" /\ log[j] = "LoadNVRAM"
          /\ nRunFrame = 0)
  /\ [][("LoadNVRAM" \in NewCallSet) => (pc = "LoadNVRAM" /\ nRunFrame = 0)]_vars
  /\ [][(pc = "LoadNVRAM" /\ ~disk[NVRAMPath(gameId)].exists) =>
          /\ Model3' = Model3
          /\ "ErrorLog" \notin NewCallSet
          /\ pc' = "CreateGLScreen"
          /\ status' = status]_vars
  /\ [][(nSaveNVRAM' # nSaveNVRAM) => (pc = "SaveNVRAM" /\ quit /\ iter >= 1)]_vars
  /\ [][(nSaveNVRAM >= 1) => nRunFrame' = nRunFrame]_vars
  /\ [](pc = "returned" /\ iter >= 1 => nSaveNVRAM = 1)

\* A game without an NVRAM file ran a frame and returned; its NVRAM file
\* was written.
C14_Witness ==
  /\ pc = "returned"
  /\ ~PreNVRAMFile(gameId).exists
  /\ nRunFrame >= 1
  /\ nSaveNVRAM = 1
  /\ disk[NVRAMPath(gameId)].exists

\* C15: for a request of positive width and height, the resolved size
\* exceeds the request in neither dimension, equals it in at least one, and
\* has the ratio 496/384 within integer rounding: the resolved height is
\* less than one pixel from resolved width * 384/496.
C15_AspectRatioKept ==
  pc = "OpenAudio" =>
    /\ xRes <= g_Config.xRes
    /\ yRes <= g_Config.yRes
    /\ xRes = g_Config.xRes \/ yRes = g_Config.yRes
    /\ 384 * xRes - 496 * yRes < 496
    /\ 496 * yRes - 384 * xRes < 496

\* A request of 640x480 was resolved to 620x480, or one of 496x504 to
\* 496x384.
C15_Witness ==
  /\ pc = "OpenAudio"
  /\ \/ g_Config.xRes = 640 /\ g_Config.yRes = 480 /\ xRes = 620 /\ yRes = 480
     \/ g_Config.xRes = 496 /\ g_Config.yRes = 504 /\ xRes = 496 /\ yRes = 384

Max(a, b) == IF a >= b THEN a ELSE b

C17_DelayAtMostOneFrame == lastDelay <= 17

\* The tick read by the timing step that is being taken: the clock after
\* the step, less the delay if there was one.
NowRead == IF lastDelay' >= 0 THEN ticks' - lastDelay' ELSE ticks'

\* The timing step of an iteration that is paced.
PacedStep == pc = "FPS" /\ (paused \/ g_Config.throttle)

\* C18: in a paced iteration whose current tick has overshot the target of
\* the frame, the epoch becomes the current tick, the frame index 0 and
\* SDL_Delay is not called; a paced iteration that follows a reset at once
\* is delayed by a frame interval of 16 ms, so that after a stall only the
\* stalled iteration goes without a delay.
C18_LostTimeNotRepaid ==
  /\ [][(PacedStep /\ NowRead > TargetTicks(startTicks, framesElapsed + 1)) =>
          /\ startTicks' = NowRead
          /\ framesElapsed' = 0
          /\ lastDelay' = -1
          /\ ticks' = NowRead
          /\ "SDL_Delay" \notin NewCallSet]_vars
  /\ [][(PacedStep /\ framesElapsed = 0 /\ startTicks = ticks /\ NowRead = ticks) =>
          /\ lastDelay' = 16
          /\ "SDL_Delay" \in NewCallSet
          /\ framesElapsed' = 1
          /\ startTicks' = startTicks]_vars

\* After a stall of 500 ms the epoch was reset, and the frame that
\* followed at once was delayed by 16 ms.
C18_Witness ==
  /\ pc = "while"
  /\ iter >= 2
  /\ startTicks >= 500
  /\ framesElapsed = 1
  /\ lastDelay = 16
  /\ ticks = startTicks + 16

\* C20: in a paced iteration the frame index is incremented and the target
\* is epoch_start + floor(frame_index * 1000 / 60); if the current tick is
\* not beyond the target, the loop blocks for target - current ms (0 ms if
\* they are equal) and the epoch is kept.
C20_TargetAndDelay ==
  [][PacedStep =>
       LET target == startTicks + ((framesElapsed + 1) * 1000) \div 60
       IN (NowRead <= target) =>
            /\ lastDelay' = target - NowRead
            /\ "SDL_Delay" \in NewCallSet
            /\ ticks' = target
            /\ framesElapsed' = framesElapsed + 1
            /\ startTicks' = startTicks]_vars

\* C19: without a logger, DebugLog, InfoLog and ErrorLog call no method of
\* any logger and change nothing; ErrorLog returns FAIL whether a logger is
\* installed or not. With a logger, the method of the same name is called
\* once on it.
C19_NoLoggerNoOp ==
  [][(Len(logReturns') = Len(logReturns) + 1) =>
       LET call == logReturns'[Len(logReturns')]
       IN /\ call.fn \in {"DebugLog", "InfoLog", "ErrorLog"}
          /\ s_Logger' = s_Logger
          /\ (s_Logger = "NULL") => loggerCalls' = loggerCalls
          /\ (s_Logger # "NULL") =>
               loggerCalls' = loggerCalls \o << [logger |-> s_Logger, method |-> call.fn] >>
          /\ (call.fn = "ErrorLog") => call.ret = "FAIL"
          /\ (call.fn # "ErrorLog") => call.ret = "void"]_vars

\* ErrorLog, DebugLog and InfoLog were called without a logger and no
\* logger method was called; ErrorLog was then called with a logger.
C19_Witness ==
  /\ s_Logger # "NULL"
  /\ Len(logReturns) = 4
  /\ { logReturns[i].fn : i \in 1 .. 3 } = {"DebugLog", "InfoLog", "ErrorLog"}
  /\ logReturns[4] = [fn |-> "ErrorLog", ret |-> "FAIL"]
  /\ loggerCalls = << [logger |-> s_Logger, method |-> "ErrorLog"] >>

\* C21: the timing step of an iteration paces exactly if, after the UI
\* command of the iteration, the session is paused or throttle is set: then
\* the frame index is incremented and SDL_Delay called, or the epoch is
\* reset; else no delay is issued and the epoch and the frame index stay.
\* Inside the loop no other step changes the epoch or the frame index, and
\* the timing step is taken once per iteration.
C21_PacedIffPausedOrThrottled ==
  /\ [][pc = "FPS" =>
          /\ pc' = "while"
          /\ IF paused \/ g_Config.throttle
             THEN \/ /\ lastDelay' >= 0
                     /\ "SDL_Delay" \in NewCallSet
                     /\ framesElapsed' = framesElapsed + 1
                     /\ startTicks' = startTicks
                  \/ /\ lastDelay' = -1
                     /\ "SDL_Delay" \notin NewCallSet
                     /\ framesElapsed' = 0
                     /\ startTicks' = NowRead
                     /\ startTicks' # startTicks
             ELSE /\ lastDelay' = -1
                  /\ "SDL_Delay" \notin NewCallSet
                  /\ framesElapsed' = framesElapsed
                  /\ startTicks' = startTicks
                  /\ ticks' = NowRead]_vars
  /\ [][(startTicks' # startTicks \/ framesElapsed' # framesElapsed) =>
          \/ pc = "Emulate"
          \/ pc = "FPS" /\ (paused \/ g_Config.throttle)]_vars
  /\ [][pc = "while" => pc' \in {"RunFrame", "SaveNVRAM"}]_vars

\* A session with throttle off was paused: its iteration was delayed by a
\* frame interval although throttle is off.
C21_Witness ==
  /\ pc = "while"
  /\ paused
  /\ ~g_Config.throttle
  /\ framesElapsed >= 1
  /\ lastDelay = 16

\* An iteration that ended running with throttle off: nothing was paced.
C21_WitnessUnpaced ==
  /\ pc = "while"
  /\ iter >= 2
  /\ ~paused
  /\ ~g_Config.throttle
  /\ lastDelay = -1
  /\ framesElapsed >= 1

\* C22: SaveState, LoadState, SaveNVRAM and LoadNVRAM close the container
\* they created or opened before they return, on the success path and on
\* every failure path: no container is open after any of them, nor when an
\* iteration begins.
C22_ContainerClosed == openFiles = {}

\* C23: showCursor is FALSE and the mouse hidden in full screen when the loop
\* is entered; showCursor flips and the mouse visibility is set to it exactly
\* in the iterations in which uiToggleCursor is the highest-priority pressed
\* command and the session is full screen; in a window a pressed
\* uiToggleCursor changes neither and is not applied: the command pressed
\* with it (uiClearNVRAM, uiToggleFrLimit) is applied, or nothing changes.
C23_ToggleCursorFullScreenOnly ==
  /\ [](pc = "Emulate" => (~showCursor /\ mouseVisible = ~g_Config.fullScreen))
  /\ [][(showCursor' # showCursor \/ (mouseVisible' # mouseVisible /\ pc # "OpenAudio")) =>
          /\ pc = "UI"
          /\ g_Config.fullScreen
          /\ Highest(pressed) = "uiToggleCursor"]_vars
  /\ [][(pc = "UI" /\ g_Config.fullScreen /\ Highest(pressed) = "uiToggleCursor") =>
          /\ showCursor' = ~showCursor
          /\ mouseVisible' = showCursor'
          /\ Applied = {"uiToggleCursor"}]_vars
  /\ [][(pc = "UI" /\ ~g_Config.fullScreen /\ Highest(pressed) = "uiToggleCursor") =>
          LET rest == Highest(pressed \ {"uiToggleCursor"})
          IN /\ showCursor' = showCursor
             /\ mouseVisible' = mouseVisible
             /\ "uiToggleCursor" \notin NewCallSet
             /\ OnlyEffectOf(rest)
             /\ (rest # "none") => Applied = {rest}
             /\ (rest = "uiClearNVRAM") => Model3' = M3ClearNVRAM(Model3)
             /\ (rest = "uiToggleFrLimit") => g_Config'.throttle = ~g_Config.throttle]_vars

\* In a window uiToggleCursor and uiToggleFrLimit were pressed together:
\* the frame limiting was switched off, the cursor flag is as it was.
C23_Witness ==
  /\ pc = "FPS"
  /\ ~g_Config.fullScreen
  /\ pressed = {"uiToggleCursor", "uiToggleFrLimit"}
  /\ log[Len(log)] = "uiToggleFrLimit"
  /\ ~showCursor
  /\ mouseVisible

\* In full screen uiToggleCursor was applied: the cursor is shown.
C23_WitnessFullScreen ==
  /\ pc = "FPS"
  /\ g_Config.fullScreen
  /\ log[Len(log)] = "uiToggleCursor"
  /\ showCursor
  /\ mouseVisible

C25_FailedPollEndsIteration ==
  /\ [][(pc = "Poll" /\ pollFailed') => (quit' /\ pc' = "UI")]_vars
  /\ [][pollFailed =>
          /\ quit /\ quit'
          /\ NewCallSet \cap {"RunFrame", "SwapBuffers", "Poll"} = {}
          /\ nRunFrame' = nRunFrame
          /\ iter' = iter]_vars
  /\ [][(pollFailed /\ pc = "UI") =>
          LET c == Highest(Honored(pressed))
          IN /\ pc' = "FPS"
             /\ (c # "none") => Applied = {c}
             /\ (c = "uiPause") => paused' = ~paused
             /\ (c = "uiSaveState") =>
                  \/ "Create:FAIL" \in NewCallSet
                  \/ disk'[SlotPath(saveSlot)] =
                       Container(SaveStateBlock, 1, gameId, M3SaveState(Model3))
             /\ (c = "uiLoadState") =>
                  IF Refused(disk[SlotPath(saveSlot)], SaveStateBlock, 1)
                  THEN Model3' = Model3
                  ELSE Model3' = M3LoadState(Model3, disk[SlotPath(saveSlot)].body)]_vars
  /\ [][(pollFailed /\ pc = "FPS") =>
          /\ pc' = "while"
          /\ g_Config.showFPS => fpsFramesElapsed' = fpsFramesElapsed + 1
          /\ (paused \/ g_Config.throttle) =>
               (framesElapsed' = framesElapsed + 1 /\ "SDL_Delay" \in NewCallSet)]_vars
  /\ [][(pollFailed /\ pc = "while") => pc' = "SaveNVRAM"]_vars

\* The Poll of the first iteration failed with uiSaveState pressed: the
\* save state was written and the iteration paced before the loop was left.
C25_Witness ==
  /\ pc = "SaveNVRAM"
  /\ pollFailed
  /\ iter = 1
  /\ \E i \in DOMAIN log :
       /\ log[i] = "Poll"
       /\ SubSeq(log, i + 1, Len(log)) =
            << "uiSaveState", "Create", "Write", "Write", "Model3->SaveState", "Close",
               "SDL_Delay" >>

\* C26: quit is set only by an applied uiExit or a failed Poll, and a pressed
\* uiExit is always applied; once quit is set it stays set, no further
\* iteration begins, the loop is left at the end of that iteration and the
\* session eventually returns 0 after SaveNVRAM and the teardown. The loop
\* is left only so: in an iteration whose Poll failed or applied uiExit.
C26_Termination ==
  /\ [][(~quit /\ quit') =>
          \/ pc = "Poll" /\ pollFailed'
          \/ pc = "UI" /\ Applied = {"uiExit"}]_vars
  /\ [][(pc = "UI" /\ "uiExit" \in pressed) => (quit' /\ Applied = {"uiExit"})]_vars
  /\ [][quit => (quit' /\ iter' = iter /\ nRunFrame' = nRunFrame)]_vars
  /\ [][(pc = "while" /\ quit) => pc' = "SaveNVRAM"]_vars
  /\ [](pc \in {"SaveNVRAM", "CloseAudio"} \/ (pc = "returned" /\ status = 0) =>
          /\ quit
          /\ iter >= 1
          /\ pollFailed \/ "uiExit" \in pressed)
  /\ [](pc \in {"RunFrame", "Poll"} => ~quit)
  /\ quit ~> (pc = "returned" /\ status = 0 /\ nSaveNVRAM = 1 /\ held = {})

\* uiExit was applied in the second iteration, whose Poll succeeded: the
\* session has saved the NVRAM and returned 0.
C26_Witness ==
  /\ pc = "returned"
  /\ status = 0
  /\ iter = 2
  /\ ~pollFailed
  /\ "uiExit" \in pressed
  /\ nSaveNVRAM = 1
  /\ held = {}

\* C27: LoadState and LoadNVRAM accept every container that can be opened,
\* has the block name and stores the expected version, whatever id it
\* stores: they make one Read (of the 4-byte version) between FindBlock and
\* the machine's deserializer, which is handed the container and loads it.
C27_IdNotChecked ==
  [][/\ (/\ pc = "UI"
         /\ "uiLoadState" \in Applied
         /\ ~Refused(disk[SlotPath(saveSlot)], SaveStateBlock, 1))
          => /\ NewCalls = << "uiLoadState", "Load", "FindBlock", "Read",
                              "Model3->LoadState", "Close" >>
             /\ Model3' = M3LoadState(Model3, disk[SlotPath(saveSlot)].body)
     /\ (/\ pc = "LoadNVRAM"
         /\ ~Refused(disk[NVRAMPath(gameId)], NVRAMBlock, 0))
          => /\ NewCalls = << "LoadNVRAM", "Load", "FindBlock", "Read",
                              "Model3->LoadNVRAM", "Close" >>
             /\ Model3' = M3LoadNVRAM(Model3, disk[NVRAMPath(gameId)].body)]_vars

\* A save state that stores the id of another game was loaded into the
\* machine.
C27_Witness ==
  /\ pc = "FPS"
  /\ \E i \in DOMAIN log : log[i] = "Model3->LoadState"
  /\ CString(disk[filePath].data, IntSize + 1) # gameId
  /\ ReadInt(disk[filePath].data) = STATE_FILE_VERSION
  /\ Model3 = M3LoadState(Model3, disk[filePath].body)

\* An NVRAM file that stores the id of another game was loaded.
C27_WitnessNVRAM ==
  /\ pc = "CreateGLScreen"
  /\ \E i \in DOMAIN log : log[i] = "Model3->LoadNVRAM"
  /\ CString(disk[filePath].data, IntSize + 1) # gameId
  /\ Model3.nv = disk[filePath].body[1]
  /\ Model3.nv # NewMachine.nv

\* C28: every path formatted into a filePath buffer, Saves/{id}.st{slot} or
\* NVRAM/{id}.nv, fits the 24 bytes of the buffer with its terminating nul,
\* for ids of up to 8 characters and every slot the session reaches; the
\* slot is printed as one digit.
C28_PathFitsBuffer ==
  /\ Len(gameId) <= 8
  /\ Len(filePath) + 1 <= FilePathSize
  /\ filePath # << >> =>
       \/ filePath = NVRAMDir \o gameId \o NvExt
       \/ /\ pc \in {"FPS", "while"}
          /\ filePath = SavesDir \o gameId \o StExt \o << 48 + saveSlot >>

\* The state of the game with an id of 8 characters was saved at slot 9:
\* the path takes 19 bytes with its nul.
C28_Witness ==
  /\ pc = "FPS"
  /\ Len(gameId) = 8
  /\ saveSlot = 9
  /\ \E i \in DOMAIN log : log[i] = "Model3->SaveState"
  /\ Len(filePath) + 1 = 19

====
